---- MODULE Spec2Model ----
(***************************************************************************)
(* poe2filter: the sync pipeline of src/main.rs.                           *)
(*                                                                         *)
(* One process run is main -> async_main -> Globals::new, the loop over    *)
(* the sources (each resolved and installed by get_github), the save of    *)
(* the watermark file, and the optional execv of the command after "--".   *)
(* The state file, the game directory and the remote platform outlive a    *)
(* run; everything else is per process.                                    *)
(*                                                                         *)
(* Strings are sequences of tokens ("github", ":", "owner", "/", "repo"),  *)
(* so that find(':'), split_at and [1..] are computed, not assumed.        *)
(* Option<T> is a sequence of length 0 (None) or 1 (Some).                 *)
(***************************************************************************)
EXTENDS Naturals, Sequences, FiniteSets, TLC

(* ---------------------------------------------------------------- bounds *)

\* Longest list of arguments before the "--" separator.
MaxSources == 2

\* Number of process runs in one behaviour.
MaxRuns == 2

\* Number of times the remote platform changes in one behaviour.
MaxRemoteChanges == 1

\* Longest archive the extraction loop is run over on its own.
MaxEntries == 3

(* ------------------------------------------------------------- options   *)

None == <<>>

Some(x) == <<x>>

(* ------------------------------------------------------------- arguments *)

\* The "--" separator of main.
sep == <<"--">>

\* The canonical descriptors the two shorthands stand for.
NeverSinkCanonical == <<"github", ":", "NeverSinkDev", "/", "NeverSink-PoE2litefilter">>

CdrgCanonical == <<"github", ":", "cdrg", "/", "cdr-poe2filter">>

\* An argument that is not valid UTF-8 (OsStr::to_str gives None).
InvalidUtf8 == <<"\\xFF">>

\* The arguments a source list is drawn from.
RawSources ==
    { <<"neversink-lite">>, NeverSinkCanonical,
      <<"cdrg">>, CdrgCanonical,
      <<"--clear">>,
      <<"gitlab", ":", "o", "/", "r">>,
      <<"github", ":", "o">>,
      <<"github", ":", "o", "/", "r", "/", "b">>,
      InvalidUtf8 }

\* What may follow the sources on the command line.
Tails == { <<>>, <<sep, <<"game">>, <<"cdrg">>>> }

RECURSIVE SeqsUpTo(_, _)
SeqsUpTo(S, n) ==
    IF n = 0 THEN { <<>> }
    ELSE LET shorter == SeqsUpTo(S, n - 1)
         IN  shorter \cup { Append(s, x) : s \in { t \in shorter : Len(t) = n - 1 }, x \in S }

ArgVectors == { s \o t : s \in SeqsUpTo(RawSources, MaxSources), t \in Tails }

(* --------------------------------------------------------------- strings *)

\* OsStr::to_str
to_str(a) == IF a = InvalidUtf8 THEN None ELSE Some(a)

\* str::find(ch): the first position of ch, as an Option (1-based here).
find(s, ch) ==
    IF \E i \in 1..Len(s) : s[i] = ch
    THEN Some(CHOOSE i \in 1..Len(s) : s[i] = ch /\ \A j \in 1..(i - 1) : s[j] # ch)
    ELSE None

\* str::split_at(index): index is the 1-based position of the first token of
\* the second half.
split_at(s, index) == << SubSeq(s, 1, index - 1), SubSeq(s, index, Len(s)) >>

\* &value[1..]
skip1(s) == SubSeq(s, 2, Len(s))

\* The shorthand table of async_main.
ExpandNothing(source) == source

Expand(source) ==
    CASE source = <<"neversink-lite">> -> NeverSinkCanonical
      [] source = <<"cdrg">> -> CdrgCanonical
      [] OTHER -> source

\* The source types async_main dispatches on.
IsKnownType(source_name) == source_name = <<"github">>

(* ------------------------------------------------------- watermark store *)

EmptyMap == [k \in {} |-> None]

\* HashMap::get
Get(m, k) == IF k \in DOMAIN m THEN Some(m[k]) ELSE None

\* HashMap::insert
Insert(m, k, v) == [x \in (DOMAIN m) \cup {k} |-> IF x = k THEN v ELSE m[x]]

\* The state file: absent, or bytes that are either a pretty-printed JSON
\* object (its members in the order they were written) or something
\* serde_json::from_str rejects (an empty or cut-off file, other content).
Missing == [kind |-> "missing", entries |-> <<>>]

Garbage == [kind |-> "garbage", entries |-> <<>>]

Truncated == [kind |-> "empty", entries |-> <<>>]

Json(entries) == [kind |-> "json", entries |-> entries]

\* serde_json::to_string_pretty(&HashMap): one member per entry, in the
\* iteration order of the HashMap, which is unspecified.
Serializations(m) ==
    { s \in [1..Cardinality(DOMAIN m) -> { <<k, m[k]>> : k \in DOMAIN m }] :
        \A i, j \in 1..Cardinality(DOMAIN m) : i # j => s[i] # s[j] }

\* serde_json::from_str::<HashMap<String, String>>: a later member with the
\* same key replaces an earlier one.
RECURSIVE FromEntries(_)
FromEntries(entries) ==
    IF entries = <<>> THEN EmptyMap
    ELSE LET n == Len(entries)
         IN  Insert(FromEntries(SubSeq(entries, 1, n - 1)), entries[n][1], entries[n][2])

\* Globals::new, the load of the store: read_to_string and from_str in
\* two nested `if let Ok`, the default kept otherwise.
LoadDamaged(file) == FromEntries(file.entries)

Load(file) == IF file.kind = "json" THEN FromEntries(file.entries) ELSE EmptyMap

(* ------------------------------------------------------------- archives  *)

\* Path::components of an entry name: split at "/", empty components dropped.
RECURSIVE Components(_)
Components(p) ==
    IF p = <<>> THEN <<>>
    ELSE LET cut == find(p, "/")
         IN  IF cut = None THEN << p >>
             ELSE LET head == SubSeq(p, 1, cut[1] - 1)
                      rest == Components(SubSeq(p, cut[1] + 1, Len(p)))
                  IN  IF head = <<>> THEN rest ELSE << head >> \o rest

\* Path::file_name: the last component, unless it is "..".
file_name(p) ==
    LET c == Components(p)
    IN  IF c = <<>> \/ c[Len(c)] = <<".", ".">> THEN None ELSE Some(c[Len(c)])

\* Path::extension: what follows the last "." of the file name, when that
\* "." is not its first character.
extension(p) ==
    LET f == file_name(p)
    IN  IF f = None THEN None
        ELSE LET dots == { i \in 2..Len(f[1]) : f[1][i] = "." }
             IN  IF dots = {} THEN None
                 ELSE LET last == CHOOSE i \in dots : \A j \in dots : j <= i
                      IN  Some(SubSeq(f[1], last + 1, Len(f[1])))

\* The marker extension of get_github.
filter == <<"filter">>

\* The entry passes `Some(filter) != path.extension()  =>  continue`.
MatchesAnyExtension(name) == extension(name) # None

Matches(name) == extension(name) = Some(filter)

\* One pass of the extraction loop body over entry e: a matching entry with
\* a file name is written over whatever the directory holds under that name.
WriteEntry(dir, e) ==
    IF ~Matches(e.name) THEN dir
    ELSE LET f == file_name(e.name)
         IN  IF f = None THEN dir ELSE Insert(dir, f[1], e.data)

\* The extraction loop over the first n entries, in the enumerated order.
RECURSIVE ExtractN(_, _, _)
ExtractN(dir, entries, n) ==
    IF n = 0 THEN dir ELSE WriteEntry(ExtractN(dir, entries, n - 1), entries[n])

\* The base names the first n entries write.
WrittenNames(entries, n) ==
    { file_name(entries[i].name)[1] :
        i \in { j \in 1..n : Matches(entries[j].name) /\ file_name(entries[j].name) # None } }

\* The zipballs the platform serves: the archive of a tag.
ArchiveV1 ==
    << [name |-> <<"r-v1", "/">>, data |-> ""],
       [name |-> <<"r-v1", "/", "a", ".", "filter">>, data |-> "a1"],
       [name |-> <<"r-v1", "/", "README", ".", "md">>, data |-> "readme"],
       [name |-> <<"r-v1", "/", "extra", "/", "a", ".", "filter">>, data |-> "a1x"] >>

ArchiveV2 ==
    << [name |-> <<"r-v2", "/">>, data |-> ""],
       [name |-> <<"r-v2", "/", "b", ".", "filter">>, data |-> "b2"] >>

ArchiveOf(tag) == IF tag = "v1" THEN ArchiveV1 ELSE ArchiveV2

\* The entries an arbitrary archive is made of: files at several depths,
\* with and without the marker extension, a dot file, a name with two
\* extensions, and a directory whose own name ends in ".filter".
EntryNames ==
    { <<"a", ".", "filter">>,
      <<"d", "/", "a", ".", "filter">>,
      <<"d", "/", "e", "/", "b", ".", "filter">>,
      <<"README", ".", "md">>,
      <<"d", "/", ".", "filter">>,
      <<"a", ".", "filter", ".", "bak">>,
      <<"d", "/">>,
      <<"e", ".", "filter", "/">> }

EntryData == { "x", "y" }

ArchiveEntries ==
    { [name |-> n, data |-> IF n[Len(n)] = "/" THEN "" ELSE c] : n \in EntryNames, c \in EntryData }

\* ZipArchive::file_names: every name of the archive once, in an order the
\* archive decides.
Archives ==
    { a \in SeqsUpTo(ArchiveEntries, MaxEntries) :
        \A i, j \in 1..Len(a) : i # j => a[i].name # a[j].name }

\* The game directory before a sync: empty, or holding files of earlier
\* installs.
OldDir ==
    [f \in { <<"a", ".", "filter">>, <<"keep", ".", "filter">>, <<"README", ".", "md">> } |-> "old"]

(* ---------------------------------------------------------------- remote *)

\* What the releases endpoint answers for a repository: the newest release,
\* if any (per_page=1).
NoReleases == <<>>

ReleaseV1 == << [tag_name |-> "v1", body |-> Some("notes v1")] >>

ReleaseV2 == << [tag_name |-> "v2", body |-> None] >>

RemoteStates == { NoReleases, ReleaseV1, ReleaseV2 }

\* The repositories of the platform: its releases endpoint exists for
\* repos/{owner}/{repo}/releases, and any other path is answered 404.
Repos == { skip1(skip1(NeverSinkCanonical)), skip1(skip1(CdrgCanonical)) }

\* The answer to GET repos/{value}/releases, None for an error status.
Releases(platform, value) ==
    IF value \in DOMAIN platform THEN Some(platform[value]) ELSE None

(* ----------------------------------------------------------------- state *)

VARIABLES
    pc,         \* where the process is: "idle" when no process runs
    args,       \* main: the VecDeque of arguments not yet popped
    sources,    \* main: the arguments before "--"
    idx,        \* async_main: the position of the `for source in sources` loop
    versions,   \* globals.versions
    cur,        \* the get_github call in flight: its arguments and the release found
    err,        \* the error main returned, if any
    file,       \* the state file filter_watermarks.json
    gamedir,    \* the *.filter files of the game directory: name -> content
    remote,     \* the platform: repository -> answer of its releases endpoint
    argv,       \* history: the command line of this run
    runNo,      \* history: the number of runs started
    changes,    \* history: the number of changes of the remote
    startFile,  \* history: the state file when this run started
    startChanges, \* history: `changes` when this run started
    log,        \* history: one record per source this run has started on
    opens,      \* history: how often this run opened the state file for writing
    installs,   \* history: the <<descriptor, watermark>> whose extraction loop ran to its end
    prev        \* history: how the previous run of the same command line ended

vars == << pc, args, sources, idx, versions, cur, err, file, gamedir, remote,
           argv, runNo, changes, startFile, startChanges, log, opens, installs,
           prev >>

proc == << args, sources, idx, versions, cur >>

world == << file, gamedir, remote, changes, installs >>

NoCall == [source |-> <<>>, value |-> <<>>, existing |-> None, release |-> None,
           zipball |-> None]

NoPrev == [status |-> "none", file |-> Missing, changes |-> 0]

\* A record of `log`: the raw argument, its canonical descriptor (once
\* parsed), the stored watermark it was compared with, the HTTP requests
\* issued for it, what the releases request was answered, the watermark
\* resolved, the file names written, whether its change block was printed,
\* and the watermark inserted into the store.
LogEntry(raw) ==
    [raw |-> raw, source |-> None, existing |-> None, http |-> <<>>,
     answer |-> "none", resolved |-> None, written |-> {}, block |-> FALSE,
     inserted |-> None]

Last(s) == s[Len(s)]

SetLast(s, r) == [s EXCEPT ![Len(s)] = r]

Running == pc \in { "new", "loop", "fetch", "download", "extract", "write", "done" }

Ended == pc \in { "failed", "exited", "execd", "execfailed", "killed" }

\* The errors of the pipeline: the messages of main.rs, and the kinds of
\* the library errors `?` passes on.
NoGameDirectory == "could not find game directory"

NotUtf8 == "all arguments must be valid UTF-8"

NoColon == "all arguments must be in the form source:arg"

BadType == "source type must be github"

NoRelease == "no release could be found"

HttpError == "reqwest::Error"

ZipError == "zip::result::ZipError"

IoError == "std::io::Error"

Init ==
    /\ pc = "idle"
    /\ args = <<>>
    /\ sources = <<>>
    /\ idx = 1
    /\ versions = EmptyMap
    /\ cur = NoCall
    /\ err = None
    /\ file \in { Missing, Garbage }
    /\ gamedir = EmptyMap
    /\ remote = [v \in Repos |-> ReleaseV1]
    /\ argv = <<>>
    /\ runNo = 0
    /\ changes = 0
    /\ startFile = Missing
    /\ startChanges = 0
    /\ log = <<>>
    /\ opens = 0
    /\ installs = {}
    /\ prev = NoPrev

(* ------------------------------------------------------------------ main *)

\* main's `while let Some(front) = args.pop_front()` loop: the arguments up
\* to the first "--" become sources, the separator is dropped, the rest
\* stays in args.
RECURSIVE PopSourcesReversed(_, _)
PopSourcesReversed(queue, taken) ==
    IF queue = <<>> THEN [sources |-> taken, args |-> <<>>]
    ELSE IF Head(queue) = sep THEN [sources |-> taken, args |-> Tail(queue)]
    ELSE PopSourcesReversed(Tail(queue), << Head(queue) >> \o taken)

RECURSIVE PopSources(_, _)
PopSources(queue, taken) ==
    IF queue = <<>> THEN [sources |-> taken, args |-> <<>>]
    ELSE IF Head(queue) = sep THEN [sources |-> taken, args |-> Tail(queue)]
    ELSE PopSources(Tail(queue), Append(taken, Head(queue)))

\* A process starts on the command line a: main up to the call of async_main.
Start(a) ==
    LET split == PopSources(a, <<>>)
    IN  /\ pc' = "new"
        /\ args' = split.args
        /\ sources' = split.sources
        /\ idx' = 1
        /\ versions' = EmptyMap
        /\ cur' = NoCall
        /\ err' = None
        /\ argv' = a
        /\ runNo' = runNo + 1
        /\ startFile' = file
        /\ startChanges' = changes
        /\ log' = <<>>
        /\ opens' = 0
        /\ UNCHANGED world

Launch ==
    /\ pc = "idle"
    /\ runNo < MaxRuns
    /\ \E a \in ArgVectors : Start(a)
    /\ UNCHANGED prev

\* Globals::new: the game directory is located (or the run fails), then the
\* store is loaded.
GlobalsNew ==
    /\ pc = "new"
    /\ \E located \in BOOLEAN :
          IF located
          THEN /\ versions' = Load(file)
               /\ pc' = "loop"
               /\ UNCHANGED err
          ELSE /\ pc' = "failed"
               /\ err' = Some(NoGameDirectory)
               /\ UNCHANGED versions
    /\ UNCHANGED << args, sources, idx, cur, world, argv, runNo, startFile,
                    startChanges, log, opens, prev >>

(* ------------------------------------------------------------ async_main *)

\* The head of the loop body: to_str, the shorthand table, find(':'),
\* split_at, the lookup of the stored watermark and the dispatch on the type.
\* The result is the get_github call, or the error the body returns.
Parse(raw, store) ==
    LET utf8 == to_str(raw)
    IN  IF utf8 = None THEN [call |-> None, error |-> Some(NotUtf8)]
        ELSE LET source == Expand(utf8[1])
                 index == find(source, ":")
             IN  IF index = None THEN [call |-> None, error |-> Some(NoColon)]
                 ELSE LET halves == split_at(source, index[1])
                      IN  IF IsKnownType(halves[1])
                          THEN [call |-> Some([source |-> source,
                                               value |-> skip1(halves[2]),
                                               existing |-> Get(store, source),
                                               release |-> None,
                                               zipball |-> None]),
                                error |-> None]
                          ELSE [call |-> None, error |-> Some(BadType)]

\* `globals.versions.insert(source.to_string(), next_version)`
RecordNothing(store, source, next_version) == store

RecordIfAbsent(store, source, next_version) ==
    IF source \in DOMAIN store THEN store ELSE Insert(store, source, next_version)

RecordAlone(store, source, next_version) == Insert(EmptyMap, source, next_version)

Record(store, source, next_version) == Insert(store, source, next_version)

\* An Err in the loop body: `?` and bail! return it from async_main, the
\* loop is left at source i, and main returns the error in turn.
BailContinue(i, error) == [pc |-> "loop", idx |-> i + 1, err |-> None]

Bail(i, error) == [pc |-> "failed", idx |-> i, err |-> Some(error)]

\* One turn of `for source in sources` up to the call of get_github.
NextSource ==
    /\ pc = "loop"
    /\ idx <= Len(sources)
    /\ LET parsed == Parse(sources[idx], versions)
           entry == LogEntry(sources[idx])
       IN  IF parsed.call = None
           THEN /\ pc' = Bail(idx, parsed.error[1]).pc
                /\ idx' = Bail(idx, parsed.error[1]).idx
                /\ err' = Bail(idx, parsed.error[1]).err
                /\ log' = Append(log, entry)
                /\ UNCHANGED cur
           ELSE /\ pc' = "fetch"
                /\ cur' = parsed.call[1]
                /\ log' = Append(log, [entry EXCEPT !.source = Some(parsed.call[1].source),
                                                    !.existing = parsed.call[1].existing])
                /\ UNCHANGED << idx, err >>
    /\ UNCHANGED << args, sources, versions, world, argv, runNo, startFile,
                    startChanges, opens, prev >>

(* ------------------------------------------------------------ get_github *)

\* `existing == Some(&release.tag_name)`
UpToDateNever(existing, tag_name) == FALSE

UpToDateOrUnset(existing, tag_name) == existing = None \/ existing = Some(tag_name)

UpToDate(existing, tag_name) == existing = Some(tag_name)

\* The request for the latest release and the comparison with the stored
\* watermark. An empty list is the error "no release could be found". An
\* up-to-date source returns its tag at once, and async_main inserts it and
\* moves to the next source; otherwise the change block is printed.
FetchRelease ==
    /\ pc = "fetch"
    /\ \E answered \in BOOLEAN :
          LET answer == Releases(remote, cur.value)
              asked == [Last(log) EXCEPT !.http = Append(@, <<"releases", cur.value>>)]
          IN  IF ~answered \/ answer = None
              THEN /\ pc' = Bail(idx, HttpError).pc
                   /\ idx' = Bail(idx, HttpError).idx
                   /\ err' = Bail(idx, HttpError).err
                   /\ log' = SetLast(log, [asked EXCEPT !.answer = "error"])
                   /\ UNCHANGED << versions, cur >>
              ELSE IF answer[1] = <<>>
              THEN /\ pc' = Bail(idx, NoRelease).pc
                   /\ idx' = Bail(idx, NoRelease).idx
                   /\ err' = Bail(idx, NoRelease).err
                   /\ log' = SetLast(log, [asked EXCEPT !.answer = "empty"])
                   /\ UNCHANGED << versions, cur >>
              ELSE LET release == answer[1][1]
                       found == [asked EXCEPT !.answer = "release",
                                              !.resolved = Some(release.tag_name)]
                   IN  IF UpToDate(cur.existing, release.tag_name)
                       THEN /\ pc' = "loop"
                            /\ idx' = idx + 1
                            /\ versions' = Record(versions, cur.source, release.tag_name)
                            /\ log' = SetLast(log, [found EXCEPT !.inserted = Some(release.tag_name)])
                            /\ UNCHANGED << cur, err >>
                       ELSE /\ pc' = "download"
                            /\ cur' = [cur EXCEPT !.release = Some(release)]
                            /\ log' = SetLast(log, [found EXCEPT !.block = TRUE])
                            /\ UNCHANGED << idx, versions, err >>
    /\ UNCHANGED << args, sources, world, argv, runNo, startFile, startChanges,
                    opens, prev >>

\* The request for the zipball: its bytes are the archive of the release.
Download ==
    /\ pc = "download"
    /\ log' = SetLast(log, [Last(log) EXCEPT !.http = Append(@, <<"zipball", cur.release[1].tag_name>>)])
    /\ \E answered \in BOOLEAN :
          IF answered
          THEN /\ pc' = "extract"
               /\ cur' = [cur EXCEPT !.zipball = Some(ArchiveOf(cur.release[1].tag_name))]
               /\ UNCHANGED << idx, err >>
          ELSE /\ pc' = Bail(idx, HttpError).pc
               /\ idx' = Bail(idx, HttpError).idx
               /\ err' = Bail(idx, HttpError).err
               /\ UNCHANGED cur
    /\ UNCHANGED << args, sources, versions, world, argv, runNo, startFile,
                    startChanges, opens, prev >>

\* ZipArchive::new and the extraction loop, then the return of the tag and
\* async_main's insert. ZipArchive::new can reject the bytes, and the loop
\* can fail at any matching entry (by_name, open, write_all): the entries
\* before it are written, and the failing one is either untouched or left
\* truncated.
Extract ==
    /\ pc = "extract"
    /\ LET entries == cur.zipball[1]
           tag == cur.release[1].tag_name
       IN  \/ /\ pc' = "loop"
              /\ gamedir' = ExtractN(gamedir, entries, Len(entries))
              /\ idx' = idx + 1
              /\ versions' = Record(versions, cur.source, tag)
              /\ log' = SetLast(log, [Last(log) EXCEPT
                                        !.written = WrittenNames(entries, Len(entries)),
                                        !.inserted = Some(tag)])
              /\ installs' = installs \cup { << cur.source, tag >> }
              /\ UNCHANGED err
           \/ /\ pc' = Bail(idx, ZipError).pc
              /\ idx' = Bail(idx, ZipError).idx
              /\ err' = Bail(idx, ZipError).err
              /\ UNCHANGED << gamedir, versions, log, installs >>
           \/ /\ pc' = Bail(idx, IoError).pc
              /\ idx' = Bail(idx, IoError).idx
              /\ err' = Bail(idx, IoError).err
              /\ \E n \in 0..(Len(entries) - 1), cut \in BOOLEAN :
                    /\ Matches(entries[n + 1].name)
                    /\ gamedir' =
                          IF cut
                          THEN WriteEntry(ExtractN(gamedir, entries, n),
                                          [entries[n + 1] EXCEPT !.data = ""])
                          ELSE ExtractN(gamedir, entries, n)
                    /\ log' = SetLast(log, [Last(log) EXCEPT !.written =
                                 WrittenNames(entries, IF cut THEN n + 1 ELSE n)])
              /\ UNCHANGED << versions, installs >>
    /\ UNCHANGED << args, sources, cur, file, remote, changes, argv, runNo,
                    startFile, startChanges, opens, prev >>

(* ------------------------------------------------------------------ save *)

\* A file whose content stops part of the way through the JSON text, after
\* n of its members.
CutOff(text, n) == [kind |-> "cutoff", entries |-> SubSeq(text, 1, n)]

\* What an interrupted write_all of the store can leave in the file.
Partial(store) == { CutOff(text, n) : text \in Serializations(store), n \in 0..Cardinality(DOMAIN store) }

\* Once the loop is exhausted: to_string_pretty and the open of the state
\* file with create + truncate + write, which empties it.
SaveOpen ==
    /\ pc = "loop"
    /\ idx > Len(sources)
    /\ \E opened \in BOOLEAN :
          IF opened
          THEN /\ pc' = "write"
               /\ file' = Truncated
               /\ opens' = opens + 1
               /\ UNCHANGED err
          ELSE /\ pc' = "failed"
               /\ err' = Some(IoError)
               /\ UNCHANGED << file, opens >>
    /\ UNCHANGED << proc, gamedir, remote, changes, installs, argv, runNo,
                    startFile, startChanges, log, prev >>

\* write_all of the serialized store; async_main returns Ok after it.
SaveWrite ==
    /\ pc = "write"
    /\ \/ /\ pc' = "done"
          /\ \E text \in Serializations(versions) : file' = Json(text)
          /\ UNCHANGED err
       \/ /\ pc' = "failed"
          /\ err' = Some(IoError)
          /\ file' \in { Truncated } \cup Partial(versions)
    /\ UNCHANGED << proc, gamedir, remote, changes, installs, argv, runNo,
                    startFile, startChanges, log, opens, prev >>

\* main after async_main returned Ok: nothing left in args ends the process,
\* otherwise execv replaces it with the command (or fails).
FinishAlsoAfterErr ==
    /\ pc \in { "done", "failed" }
    /\ IF args = <<>>
       THEN pc' = "exited"
       ELSE \E replaced \in BOOLEAN : pc' = IF replaced THEN "execd" ELSE "execfailed"
    /\ UNCHANGED << proc, err, world, argv, runNo, startFile, startChanges, log,
                    opens, prev >>

Finish ==
    /\ pc = "done"
    /\ IF args = <<>>
       THEN pc' = "exited"
       ELSE \E replaced \in BOOLEAN : pc' = IF replaced THEN "execd" ELSE "execfailed"
    /\ UNCHANGED << proc, err, world, argv, runNo, startFile, startChanges, log,
                    opens, prev >>

(* ----------------------------------------------------------- environment *)

\* The process is interrupted (a signal, a power cut): its memory is gone,
\* and in the middle of write_all the file keeps whatever part was written.
Kill ==
    /\ Running
    /\ pc' = "killed"
    /\ args' = <<>>
    /\ sources' = <<>>
    /\ idx' = 1
    /\ versions' = EmptyMap
    /\ cur' = NoCall
    /\ log' = <<>>
    /\ file' \in (IF pc = "write" THEN { file } \cup Partial(versions) ELSE { file })
    /\ UNCHANGED << err, gamedir, remote, changes, installs, argv, runNo,
                    startFile, startChanges, opens, prev >>

\* The platform publishes or withdraws a release of one repository. Only the
\* releases request reads the platform, so a change is placed right before
\* one, or between two runs.
RemoteChange ==
    /\ pc \in { "idle", "fetch" }
    /\ changes < MaxRemoteChanges
    /\ changes' = changes + 1
    /\ \E v \in Repos, r \in RemoteStates :
          /\ r # remote[v]
          /\ remote' = [remote EXCEPT ![v] = r]
    /\ UNCHANGED << pc, proc, err, file, gamedir, installs, argv, runNo,
                    startFile, startChanges, log, opens, prev >>

\* The process is gone; its memory with it.
Exit ==
    /\ Ended
    /\ pc' = "idle"
    /\ args' = <<>>
    /\ sources' = <<>>
    /\ idx' = 1
    /\ versions' = EmptyMap
    /\ cur' = NoCall
    /\ err' = None
    /\ argv' = <<>>
    /\ startFile' = Missing
    /\ startChanges' = 0
    /\ log' = <<>>
    /\ opens' = 0
    /\ UNCHANGED << world, runNo, prev >>

\* The same command line is run again (a launcher with fixed options).
Relaunch ==
    /\ Ended
    /\ runNo < MaxRuns
    /\ prev' = [status |-> pc, file |-> file, changes |-> startChanges]
    /\ Start(argv)

Next ==
    \/ Launch
    \/ GlobalsNew
    \/ NextSource
    \/ FetchRelease
    \/ Download
    \/ Extract
    \/ SaveOpen
    \/ SaveWrite
    \/ Finish
    \/ Kill
    \/ RemoteChange
    \/ Exit

Spec == Init /\ [][Next]_vars

\* Runs of one fixed command line, each remembering how the one before ended.
FirstLaunch ==
    /\ runNo = 0
    /\ Launch

NextRerun ==
    \/ FirstLaunch
    \/ GlobalsNew
    \/ NextSource
    \/ FetchRelease
    \/ Download
    \/ Extract
    \/ SaveOpen
    \/ SaveWrite
    \/ Finish
    \/ Kill
    \/ RemoteChange
    \/ Relaunch

SpecRerun == Init /\ [][NextRerun]_vars

\* The extraction loop on its own: get_github at `ZipArchive::new`, for the
\* first source of a run, with any archive as the zipball.
InitExtract ==
    /\ pc = "extract"
    /\ args = <<>>
    /\ sources = << CdrgCanonical >>
    /\ idx = 1
    /\ versions = EmptyMap
    /\ cur \in { [source |-> CdrgCanonical, value |-> skip1(skip1(CdrgCanonical)),
                   existing |-> None, release |-> Some(ReleaseV1[1]),
                   zipball |-> Some(a)] : a \in Archives }
    /\ err = None
    /\ file = Missing
    /\ gamedir \in { EmptyMap, OldDir }
    /\ remote = [v \in Repos |-> ReleaseV1]
    /\ argv = << CdrgCanonical >>
    /\ runNo = 1
    /\ changes = 0
    /\ startFile = Missing
    /\ startChanges = 0
    /\ log = << [LogEntry(CdrgCanonical) EXCEPT
                    !.source = Some(CdrgCanonical),
                    !.http = << <<"releases", skip1(skip1(CdrgCanonical))>>, <<"zipball", "v1">> >>,
                    !.answer = "release",
                    !.resolved = Some("v1"),
                    !.block = TRUE] >>
    /\ opens = 0
    /\ installs = {}
    /\ prev = NoPrev

NextExtract == Extract

SpecExtract == InitExtract /\ [][NextExtract]_vars

(* ---------------------------------------------------------------- claims *)

\* The process is inside a get_github call.
InCall == pc \in { "fetch", "download", "extract" }

\* async_main returned Ok: the pipeline reached Done.
PipelineDone == pc \in { "done", "exited", "execd", "execfailed" }

\* Source i of this run was given up: it is no longer being worked on, and
\* nothing was inserted for it.
GivenUp(i) == log[i].inserted = None /\ (i = Len(log) => ~InCall)

\* The zipball was requested for the source of log record e.
AskedZipball(e) == \E j \in 1..Len(e.http) : e.http[j][1] = "zipball"

\* C1: if any source of a run fails, the run ends in Failed, the save step is
\* not executed and the state file is what it was when the run started, also
\* when earlier sources were installed and recorded in memory.
C1_FailFastAbortsPersistence ==
    (\E i \in 1..Len(log) : GivenUp(i)) =>
        /\ pc = "failed"
        /\ opens = 0
        /\ file = startFile

C1_Witness ==
    /\ pc = "failed"
    /\ Len(sources) = 2
    /\ Len(log) = 2
    /\ log[1].inserted # None
    /\ log[1].written # {}
    /\ versions # Load(startFile)
    /\ startFile.kind = "json"
    /\ file = startFile

\* C2: a source whose freshly resolved watermark equals the one the store
\* held for its descriptor gets no zipball request and no file write.
C2_WatermarkGating ==
    /\ \A i \in 1..Len(log) :
          (log[i].resolved # None /\ log[i].resolved = log[i].existing) =>
              /\ ~AskedZipball(log[i])
              /\ log[i].written = {}
              /\ ~log[i].block
    /\ pc \in { "download", "extract" } => cur.existing # Some(cur.release[1].tag_name)

C2_Witness ==
    /\ pc = "loop"
    /\ Len(log) = 1
    /\ log[1].resolved = Some("v1")
    /\ log[1].existing = Some("v1")
    /\ startFile.kind = "json"
    /\ log[1].inserted = Some("v1")

\* C3: after a successful run, a second run of the same command line with
\* the remote unchanged since the first one started writes no file into the
\* game directory, and once it is over the state file holds the same
\* descriptor-to-watermark mapping as after the first.
C3_Idempotence ==
    (prev.status \in { "exited", "execd", "execfailed" } /\ prev.changes = changes) =>
        /\ \A i \in 1..Len(log) : log[i].written = {} /\ ~AskedZipball(log[i])
        /\ pc \notin { "download", "extract" }
        /\ PipelineDone => Load(file) = Load(prev.file)
        /\ (pc = "failed" /\ opens = 0) => file = prev.file

C3_Witness ==
    /\ prev.status = "exited"
    /\ prev.changes = changes
    /\ pc = "exited"
    /\ Len(log) = 2
    /\ log[1].source # log[2].source
    /\ Cardinality(DOMAIN Load(file)) = 2
    /\ file # prev.file
    /\ Load(file) = Load(prev.file)

\* The flag of the command line that is to empty the store.
clear == <<"--clear">>

\* C4 (as claimed): in a run with "--clear" among the sources that reaches
\* Done, or that fails on that very argument, every source whose stored
\* watermark equals the remote one has been downloaded and installed again.
C4_ClearForcesReinstall ==
    ( /\ \E i \in 1..Len(sources) : sources[i] = clear
      /\ \/ PipelineDone
         \/ pc = "failed" /\ log # <<>> /\ Last(log).raw = clear ) =>
        \A i \in 1..Len(sources) :
            LET call == Parse(sources[i], Load(startFile)).call
            IN  ( /\ call # None
                  /\ call[1].existing # None
                  /\ Releases(remote, call[1].value) # None
                  /\ Releases(remote, call[1].value)[1] # <<>>
                  /\ call[1].existing = Some(Releases(remote, call[1].value)[1][1].tag_name) ) =>
                    \E j \in 1..Len(log) :
                        /\ log[j].source = Some(call[1].source)
                        /\ AskedZipball(log[j])
                        /\ log[j].inserted # None

\* C5 (as claimed): a source whose releases request is answered with an empty
\* list does not fail the run, and nothing is downloaded, written or recorded
\* for it.
C5_EmptyReleaseListIsNotAnError ==
    \A i \in 1..Len(log) :
        log[i].answer = "empty" =>
            /\ ~(i = Len(log) /\ pc = "failed")
            /\ ~AskedZipball(log[i])
            /\ log[i].written = {}
            /\ log[i].inserted = None

\* The known shorthands, each with its fully qualified form.
ShorthandTable ==
    { << <<"neversink-lite">>, NeverSinkCanonical >>, << <<"cdrg">>, CdrgCanonical >> }

\* C6: a shorthand is parsed into the same get_github call as its canonical
\* descriptor, and the store, the state file and the record of the run hold
\* the canonical descriptor, never the shorthand.
C6_AliasExpansion ==
    \A p \in ShorthandTable :
        /\ Parse(p[1], versions) = Parse(p[2], versions)
        /\ Parse(p[1], versions).call # None
        /\ Parse(p[1], versions).call[1].source = p[2]
        /\ Parse(p[1], versions).call[1].existing = Get(versions, p[2])
        /\ p[1] \notin DOMAIN versions
        /\ p[1] \notin DOMAIN Load(file)
        /\ \A i \in 1..Len(log) :
              log[i].raw = p[1] =>
                  /\ log[i].source = Some(p[2])
                  /\ \A j \in 1..Len(log[i].http) :
                        log[i].http[j][1] = "releases" => log[i].http[j][2] = skip1(skip1(p[2]))

C6_Witness ==
    /\ pc = "exited"
    /\ sources = << <<"cdrg">>, <<"neversink-lite">> >>
    /\ log[1].inserted = Some("v1")
    /\ log[2].existing = Some("v1")
    /\ log[2].inserted = Some("v1")
    /\ NeverSinkCanonical \in DOMAIN Load(startFile)
    /\ DOMAIN Load(file) = { CdrgCanonical, NeverSinkCanonical }

\* C7: the sources are the arguments before "--", taken in the order given;
\* the state file is not touched while they are processed, and a run that
\* reaches Done has opened it for writing exactly once, after the last
\* source, and left the whole store in it.
C7_SinglePersistencePoint ==
    /\ opens <= 1
    /\ pc \notin { "idle", "killed" } =>
          /\ \A i \in 1..Len(sources) : sources[i] = argv[i] /\ sources[i] # sep
          /\ Len(argv) > Len(sources) => argv[Len(sources) + 1] = sep
          /\ Len(log) <= Len(sources)
          /\ \A i \in 1..Len(log) : log[i].raw = sources[i]
          /\ \A i \in 1..(Len(log) - 1) : log[i].inserted # None
    /\ pc \in { "new", "loop", "fetch", "download", "extract" } => opens = 0 /\ file = startFile
    /\ pc = "write" => opens = 1 /\ idx = Len(sources) + 1
    /\ PipelineDone =>
          /\ opens = 1
          /\ Len(log) = Len(sources)
          /\ \A i \in 1..Len(log) : log[i].inserted # None
          /\ file.kind = "json"
          /\ Load(file) = versions

C7_Witness ==
    /\ pc = "done"
    /\ Len(sources) = 2
    /\ sources[1] # sources[2]
    /\ opens = 1
    /\ file # startFile
    /\ log[1].written # {}
    /\ log[2].written # {}

\* The descriptors C8 calls malformed.
MalformedDescriptor(raw) ==
    LET source == Expand(raw)
        index == find(source, ":")
    IN  \/ index = None
        \/ split_at(source, index[1])[1] # <<"github">>
        \/ Len(Components(skip1(split_at(source, index[1])[2]))) \notin { 2, 3 }

FirstOccurrence(i) == \A j \in 1..(i - 1) : log[j].source # log[i].source

\* C9: a run that starts on a missing, unreadable or invalid state file does
\* not fail at the load and starts from the empty store, so that every source
\* that resolves to a release is, at its first occurrence, compared with no
\* watermark, announced, and downloaded before it is recorded.
C9_PermissiveLoad ==
    (startFile.kind # "json" /\ pc \notin { "idle", "new", "killed" }) =>
        /\ (pc = "failed" /\ log = <<>>) => err \in { Some(NoGameDirectory), Some(IoError) }
        /\ DOMAIN versions = { log[i].source[1] : i \in { j \in 1..Len(log) : log[j].inserted # None } }
        /\ \A i \in 1..Len(log) :
              (log[i].resolved # None /\ FirstOccurrence(i)) =>
                  /\ log[i].existing = None
                  /\ log[i].block
                  /\ log[i].inserted # None =>
                        /\ AskedZipball(log[i])
                        /\ log[i].written = WrittenNames(ArchiveOf(log[i].resolved[1]),
                                                         Len(ArchiveOf(log[i].resolved[1])))

C9_Witness ==
    /\ startFile.kind = "cutoff"
    /\ startFile.entries # <<>>
    /\ pc = "done"
    /\ Len(log) = 1
    /\ log[1].source = Some(startFile.entries[1][1])
    /\ log[1].resolved = Some(startFile.entries[1][2])
    /\ log[1].written # {}

\* C10 (as claimed): a process interrupted after it opened the state file for
\* writing leaves a file that still parses and still holds every descriptor
\* of the previous successful save.
C10_CrashSafeSave ==
    (pc = "killed" /\ opens = 1 /\ startFile.kind = "json" /\ Load(startFile) # EmptyMap) =>
        /\ file.kind = "json"
        /\ DOMAIN Load(startFile) \subseteq DOMAIN Load(file)

\* The positions of the entries of an archive that carry the marker
\* extension, and the base name of an entry.
Marked(entries) ==
    { i \in 1..Len(entries) : extension(entries[i].name) = Some(<<"filter">>) }

BaseName(name) == Last(Components(name))

\* C11: once the extraction of an archive has succeeded, the files written
\* are exactly the base names of the entries with extension "filter", each
\* holding the content of the last such entry in the enumerated order, no
\* destination name keeps a directory of the archive, and every other file
\* of the directory is as it was; a failed extraction has written no other
\* names.
C11_ExtensionFilterAndFlattening ==
    (cur.zipball # None /\ Len(log) = 1 /\ pc \in { "loop", "failed" }) =>
        LET entries == cur.zipball[1]
            bases == { BaseName(entries[i].name) : i \in Marked(entries) }
            fresh == { f \in DOMAIN gamedir : gamedir[f] # "old" }
        IN  /\ fresh \subseteq bases
            /\ log[1].written \subseteq bases
            /\ \A f \in DOMAIN gamedir : \A k \in 1..Len(f) : f[k] # "/"
            /\ pc = "loop" =>
                  /\ log[1].written = bases
                  /\ fresh = bases
                  /\ DOMAIN gamedir \ bases \in { {}, DOMAIN OldDir \ bases }
                  /\ \A f \in bases :
                        LET last == CHOOSE i \in Marked(entries) :
                                        /\ BaseName(entries[i].name) = f
                                        /\ \A j \in Marked(entries) :
                                              BaseName(entries[j].name) = f => j <= i
                        IN  gamedir[f] = entries[last].data

C11_Witness ==
    /\ pc = "loop"
    /\ cur.zipball # None
    /\ Len(cur.zipball[1]) = 3
    /\ cur.zipball[1][1] = [name |-> <<"d", "/", "a", ".", "filter">>, data |-> "x"]
    /\ cur.zipball[1][2] = [name |-> <<"README", ".", "md">>, data |-> "x"]
    /\ cur.zipball[1][3] = [name |-> <<"a", ".", "filter">>, data |-> "y"]
    /\ gamedir = [OldDir EXCEPT ![<<"a", ".", "filter">>] = "y"]

\* The source of log record e resolved to a release other than the one the
\* store held for its descriptor (or the store held none).
Changed(e) == e.resolved # None /\ e.existing # e.resolved

\* No later source of this run was recorded under the descriptor of source i.
LastRecorded(i) ==
    \A j \in (i + 1)..Len(log) : log[j].source = log[i].source => log[j].inserted = None

\* C12: a source that resolved to a release other than the stored one is
\* never passed over: its zipball is requested next, and it is either still
\* being installed, or the run failed on its download or extraction, or the
\* whole archive was extracted and the store holds the resolved watermark
\* under its descriptor.
C12_ChangedSourcesInstalledAndRecorded ==
    \A i \in 1..Len(log) :
        Changed(log[i]) =>
            /\ ~AskedZipball(log[i]) => (i = Len(log) /\ pc = "download")
            /\ log[i].inserted = None =>
                  /\ i = Len(log)
                  /\ \/ pc \in { "download", "extract" }
                     \/ pc = "failed" /\ err \in { Some(HttpError), Some(ZipError), Some(IoError) }
            /\ log[i].inserted # None =>
                  /\ AskedZipball(log[i])
                  /\ log[i].written = WrittenNames(ArchiveOf(log[i].resolved[1]),
                                                   Len(ArchiveOf(log[i].resolved[1])))
                  /\ << log[i].source[1], log[i].resolved[1] >> \in installs
                  /\ log[i].inserted = log[i].resolved
                  /\ LastRecorded(i) => Get(versions, log[i].source[1]) = log[i].resolved

C12_Witness ==
    /\ pc = "loop"
    /\ Len(log) = 2
    /\ log[1].existing = None
    /\ log[1].inserted = Some("v1")
    /\ log[2].existing = Some("v1")
    /\ log[2].resolved = Some("v2")
    /\ log[2].inserted = Some("v2")
    /\ log[2].written = { <<"b", ".", "filter">> }
    /\ versions[log[2].source[1]] = "v2"

\* C13 (as claimed): the change block of a source is on the diagnostic
\* stream only once that source's archive has been extracted to the end, so
\* that a source whose download or extraction fails has no block; and a
\* source whose watermark is unchanged has no block.
C13_ChangeAnnouncementFollowsInstallation ==
    \A i \in 1..Len(log) :
        /\ log[i].block =>
              /\ AskedZipball(log[i])
              /\ log[i].inserted # None
              /\ << log[i].source[1], log[i].resolved[1] >> \in installs
        /\ (log[i].resolved # None /\ log[i].resolved = log[i].existing) => ~log[i].block

\* The payload of a canonical descriptor (what follows "type:"), and the
\* number of its path segments.
Payload(source) == skip1(split_at(source, find(source, ":")[1])[2])

Segments(source) == Len(Components(Payload(source)))

\* The tags the releases of the platform carry.
ReleaseTags == { "v1", "v2" }

\* C14 (as claimed): a github payload owner/repo is resolved through the
\* releases endpoint, to the tag of the latest release; a payload
\* owner/repo/branch is resolved through the branch endpoint, so no releases
\* request is issued for it and its watermark is not a release tag.
C14_StrategySelectionByPayloadShape ==
    \A i \in 1..Len(log) :
        log[i].source # None =>
            /\ Segments(log[i].source[1]) = 2 =>
                  /\ \A j \in 1..Len(log[i].http) :
                        log[i].http[j][1] = "releases" => log[i].http[j][2] = Payload(log[i].source[1])
                  /\ log[i].resolved # None => log[i].resolved[1] \in ReleaseTags
            /\ Segments(log[i].source[1]) = 3 =>
                  /\ \A j \in 1..Len(log[i].http) : log[i].http[j][1] # "releases"
                  /\ log[i].resolved # None => log[i].resolved[1] \notin ReleaseTags

\* execv has been called with the command after "--".
ExecCalled == pc \in { "execd", "execfailed" }

\* C15: execv is called only from Done, with the arguments that followed
\* "--", when the state file holds the saved store; a run in Failed never
\* gets to it; and no argument from "--" on is ever taken as a source.
C15_TailExecOnlyAfterSuccessfulSync ==
    /\ [][(ExecCalled' /\ ~ExecCalled) => (pc = "done" /\ args' = args)]_vars
    /\ [][pc = "failed" => ~ExecCalled']_vars
    /\ [](ExecCalled =>
             /\ err = None
             /\ opens = 1
             /\ file.kind = "json"
             /\ Load(file) = versions
             /\ Len(argv) > Len(sources) + 1
             /\ argv[Len(sources) + 1] = sep
             /\ args = SubSeq(argv, Len(sources) + 2, Len(argv)))
    /\ [](pc \notin { "idle", "killed" } =>
             \A i \in 1..Len(log) :
                 /\ log[i].raw = argv[i]
                 /\ \A k \in 1..i : argv[k] # sep)

C15_Witness ==
    /\ pc = "execd"
    /\ sources = << <<"neversink-lite">> >>
    /\ args = << <<"game">>, <<"cdrg">> >>
    /\ Len(log) = 1
    /\ DOMAIN Load(file) = { NeverSinkCanonical }
    /\ file # startFile

\* The canonical descriptors of the sources this run has started on.
Named == { log[i].source[1] : i \in { j \in 1..Len(log) : log[j].source # None } }

\* C16: once a run has reached Done, the saved state file holds every key the
\* loaded one held, with the loaded value under every key that is not the
\* descriptor of a source of this run, and no key besides the loaded ones
\* and those descriptors.
C16_UntouchedEntriesCarried ==
    PipelineDone =>
        /\ DOMAIN Load(file) = DOMAIN Load(startFile) \cup Named
        /\ \A k \in DOMAIN Load(startFile) \ Named : Load(file)[k] = Load(startFile)[k]

C16_Witness ==
    /\ pc = "done"
    /\ sources = << <<"cdrg">> >>
    /\ DOMAIN Load(startFile) = { NeverSinkCanonical }
    /\ Load(startFile)[NeverSinkCanonical] = "v1"
    /\ remote[skip1(skip1(NeverSinkCanonical))] = ReleaseV2
    /\ DOMAIN Load(file) = { NeverSinkCanonical, CdrgCanonical }
    /\ Load(file)[NeverSinkCanonical] = "v1"

\* C17: whatever watermark the state file, the store in memory or the record
\* of a run holds for a descriptor, the archive of that watermark has been
\* extracted to the end for that descriptor, in this run or an earlier one.
C17_NoWatermarkWithoutInstall ==
    /\ \A k \in DOMAIN Load(file) : << k, Load(file)[k] >> \in installs
    /\ \A k \in DOMAIN versions : << k, versions[k] >> \in installs
    /\ \A i \in 1..Len(log) :
          log[i].inserted # None => << log[i].source[1], log[i].inserted[1] >> \in installs

C17_Witness ==
    /\ pc = "done"
    /\ runNo = 2
    /\ Len(log) = 2
    /\ log[1].written = {}
    /\ ~AskedZipball(log[1])
    /\ log[1].inserted = Some("v1")
    /\ log[2].source # log[1].source
    /\ log[2].existing = None
    /\ log[2].inserted = Some("v2")
    /\ Cardinality(DOMAIN Load(file)) = 2
    /\ Cardinality(installs) = 2

\* The remote has not changed since this run started.
RemoteFixed == changes = startChanges

\* C18: in a run during which the remote does not change, a source whose
\* descriptor an earlier source of the run already had is compared with the
\* watermark that earlier source recorded, and gets no zipball request and
\* no file write.
C18_DuplicatesInstalledOnce ==
    RemoteFixed =>
        \A i, j \in 1..Len(log) :
            (i < j /\ log[i].source # None /\ log[i].source = log[j].source) =>
                /\ log[j].existing = log[i].inserted
                /\ log[j].existing # None
                /\ ~AskedZipball(log[j])
                /\ log[j].written = {}
                /\ pc \in { "download", "extract" } => j # Len(log)

C18_Witness ==
    /\ RemoteFixed
    /\ pc = "done"
    /\ sources = << <<"cdrg">>, CdrgCanonical >>
    /\ log[1].existing = None
    /\ AskedZipball(log[1])
    /\ log[1].written # {}
    /\ log[2].existing = Some("v1")
    /\ log[2].inserted = Some("v1")
    /\ DOMAIN Load(file) = { CdrgCanonical }

\* C19: once a run during which the remote did not change has reached Done,
\* every source of it resolved to a release, and the saved state file maps
\* its descriptor to the tag resolved, which is the tag of the latest release
\* of its repository.
C19_SuccessfulRunPostcondition ==
    (PipelineDone /\ RemoteFixed) =>
        /\ Len(log) = Len(sources)
        /\ \A i \in 1..Len(log) :
              /\ log[i].resolved # None
              /\ Get(Load(file), log[i].source[1]) = log[i].resolved
              /\ Releases(remote, Payload(log[i].source[1])) =
                    Some(<< [tag_name |-> log[i].resolved[1],
                             body |-> Releases(remote, Payload(log[i].source[1]))[1][1].body] >>)

C19_Witness ==
    /\ RemoteFixed
    /\ pc = "exited"
    /\ Len(log) = 2
    /\ log[1].source # log[2].source
    /\ log[1].existing = Some("v1")
    /\ log[1].resolved = Some("v2")
    /\ log[2].existing = Some("v1")
    /\ log[2].resolved = Some("v1")
    /\ Load(file)[log[1].source[1]] = "v2"
    /\ Load(file)[log[2].source[1]] = "v1"
    /\ Load(startFile)[log[1].source[1]] = "v1"

====
